---- MODULE Spec2Model ----
(***************************************************************************)
(* Vacation tracking backend (src/vacay/backend): the request              *)
(* validator/creator, the deletion rule, the balance engine and the        *)
(* calendar functions they rest on.                                        *)
(*                                                                         *)
(* A date is its proleptic Gregorian ordinal (datetime.date.toordinal):    *)
(* date comparison is integer comparison, date + timedelta(days=k) is      *)
(* integer addition, and year/month/day/weekday are computed from the      *)
(* ordinal the way the datetime module computes them.                      *)
(***************************************************************************)
EXTENDS Integers, Sequences, FiniteSets, TLC

(* ------------------------------------------------------------------ *)
(* Calendar (datetime.date as used by utils.py and db_service.py)      *)
(* ------------------------------------------------------------------ *)

Min(a, b) == IF a <= b THEN a ELSE b

Max(a, b) == IF a >= b THEN a ELSE b

IsLeap(y) == y % 4 = 0 /\ (y % 100 # 0 \/ y % 400 = 0)

\* days before January 1st of year y
DaysBeforeYear(y) ==
    LET k == y - 1 IN k * 365 + (k \div 4) - (k \div 100) + (k \div 400)

DaysInMonth(y, m) ==
    IF m = 2 THEN (IF IsLeap(y) THEN 29 ELSE 28)
    ELSE IF m \in {4, 6, 9, 11} THEN 30 ELSE 31

\* days of year y before the first day of month m
DaysBeforeMonth(y, m) ==
    <<0, 31, 59, 90, 120, 151, 181, 212, 243, 273, 304, 334>>[m]
        + (IF m > 2 /\ IsLeap(y) THEN 1 ELSE 0)

\* date(y, m, d)
MkDate(y, m, d) == DaysBeforeYear(y) + DaysBeforeMonth(y, m) + d

\* d.year, computed from the ordinal
ord_year(n) ==
    LET n0   == n - 1
        n400 == n0 \div 146097
        r400 == n0 % 146097
        n100 == r400 \div 36524
        r100 == r400 % 36524
        n4   == r100 \div 1461
        r4   == r100 % 1461
        n1   == r4 \div 365
        y    == n400 * 400 + n100 * 100 + n4 * 4 + n1 + 1
    IN  IF n1 = 4 \/ n100 = 4 THEN y - 1 ELSE y

\* day of the year of the date with ordinal n, counted from 0
DayOfYear0(n) == n - DaysBeforeYear(ord_year(n)) - 1

\* d.month: the estimate (n + 50) >> 5, one less when it overshoots
ord_month(n) ==
    LET y   == ord_year(n)
        n0  == DayOfYear0(n)
        est == (n0 + 50) \div 32
    IN  IF DaysBeforeMonth(y, est) > n0 THEN est - 1 ELSE est

\* d.day
ord_day(n) == DayOfYear0(n) - DaysBeforeMonth(ord_year(n), ord_month(n)) + 1

\* The years the model's dates lie in. Calendar holds year, month and day of
\* each of their days, computed once; a date outside it is computed on demand.
CalendarDays ==
    (MkDate(2023, 1, 1)..MkDate(2025, 12, 31)) \cup (MkDate(2098, 1, 1)..MkDate(2099, 12, 31))

Calendar ==
    [n \in CalendarDays |->
        [year |-> ord_year(n), month |-> ord_month(n), day |-> ord_day(n)]]

YearOf(n) == IF n \in CalendarDays THEN Calendar[n].year ELSE ord_year(n)

MonthOf(n) == IF n \in CalendarDays THEN Calendar[n].month ELSE ord_month(n)

DayOf(n) == IF n \in CalendarDays THEN Calendar[n].day ELSE ord_day(n)

\* d.weekday(): Monday = 0 .. Sunday = 6
Weekday(n) == (n + 6) % 7

(* ------------------------------------------------------------------ *)
(* utils.py: pure calendar functions                                   *)
(* ------------------------------------------------------------------ *)

\* the elements of a list, for `x in list`
Range(seq) == {seq[i] : i \in 1..Len(seq)}

\* Memorial Day: May 31 minus (weekday + 1) % 7 days
memorial_day(year) ==
    LET may_last == MkDate(year, 5, 31)
    IN  may_last - ((Weekday(may_last) + 1) % 7)

\* Labor Day: Sep 1 plus (7 - weekday) % 7 days
labor_day(year) ==
    LET sept_first == MkDate(year, 9, 1)
    IN  sept_first + ((7 - Weekday(sept_first)) % 7)

\* Thanksgiving: first Thursday of November plus three weeks
thanksgiving(year) ==
    LET nov_first      == MkDate(year, 11, 1)
        first_thursday == nov_first + ((3 - Weekday(nov_first)) % 7)
    IN  first_thursday + 21

\* the list get_corporate_holidays builds, in the order of its appends
get_corporate_holidays(year) ==
    << MkDate(year, 1, 1), MkDate(year, 7, 4), MkDate(year, 12, 25),
       memorial_day(year), labor_day(year), thanksgiving(year) >>

\* calculate_business_days skipping Sunday only (weekday() < 6)
calculate_days_skipping_sunday(start_date, end_date, holidays) ==
    IF start_date > end_date THEN 0
    ELSE LET in_holidays == Range(holidays)
         IN  Cardinality({ current \in start_date..end_date :
                              Weekday(current) < 6 /\ current \notin in_holidays })

\* the while loop of calculate_business_days: current runs from start_date to
\* end_date, total_days counts the days with weekday() < 5 that are not in holidays
RECURSIVE business_days_loop(_, _, _, _)
business_days_loop(current, end_date, holidays, total_days) ==
    IF current <= end_date
    THEN business_days_loop(current + 1, end_date, holidays,
             IF Weekday(current) < 5 /\ ~(\E i \in 1..Len(holidays) : holidays[i] = current)
             THEN total_days + 1
             ELSE total_days)
    ELSE total_days

\* calculate_business_days that does not look at the holidays
calculate_weekdays_only(start_date, end_date, holidays) ==
    IF start_date > end_date THEN 0
    ELSE business_days_loop(start_date, end_date, << >>, 0)

\* calculate_business_days with while current < end_date
calculate_days_before_end(start_date, end_date, holidays) ==
    IF start_date > end_date THEN 0
    ELSE business_days_loop(start_date, end_date - 1, holidays, 0)

calculate_business_days(start_date, end_date, holidays) ==
    IF start_date > end_date THEN 0
    ELSE business_days_loop(start_date, end_date, holidays, 0)

\* calculate_vacation_accrued with <= in the comparison of the days of month
accrued_day_not_after(hire_date, current_date) ==
    IF hire_date > current_date THEN 0
    ELSE LET months == (YearOf(current_date) - YearOf(hire_date)) * 12
                          + MonthOf(current_date) - MonthOf(hire_date)
             m2     == IF DayOf(current_date) <= DayOf(hire_date)
                       THEN months - 1 ELSE months
         IN  Max(0, m2)

calculate_vacation_accrued(hire_date, current_date) ==
    IF hire_date > current_date THEN 0
    ELSE LET months == (YearOf(current_date) - YearOf(hire_date)) * 12
                          + MonthOf(current_date) - MonthOf(hire_date)
             m2     == IF DayOf(current_date) < DayOf(hire_date)
                       THEN months - 1 ELSE months
         IN  Max(0, m2)

\* holidays = []; for year in range(y1, y2 + 1): holidays.extend(...)
RECURSIVE holidays_for_years(_, _)
holidays_for_years(y1, y2) ==
    IF y1 > y2 THEN << >>
    ELSE get_corporate_holidays(y1) \o holidays_for_years(y1 + 1, y2)

(* ------------------------------------------------------------------ *)
(* Inputs and bounds                                                   *)
(* ------------------------------------------------------------------ *)

\* employees.id of the two employees that exist
Employees == {1, 2}

\* hire_date IS NULL: the column is not set by get_or_create_employee
NoDate == 0

\* vacation_requests.id is never this value: the "no request" of a response
NoId == 0

\* the ids the sequence of vacation_requests.id hands out are 1..MaxId
MaxId == 2

VacationTypes == {"vacation", "optional_holiday"}

\* 2024-06-17 is a Monday, 2024-06-18 the Tuesday after it
TodayDates == { MkDate(2024, 6, 17), MkDate(2024, 6, 18) }

HireDates == { NoDate, MkDate(2023, 3, 10) }

\* The (start_date, end_date) pairs a request is made with:
\*   Mon 2024-06-17 .. Sun 2024-06-16   start after end
\*   Sat 2024-06-15 .. Sun 2024-06-16   a weekend before every value of today
\*   Mon 2024-06-17 .. Wed 2024-06-19   3 business days
\*   Wed 2024-06-26 .. Mon 2024-07-08   8 business days around Independence Day
\*   Thu 2024-07-04 .. Thu 2024-07-04   a holiday alone
\*   Mon 2025-01-06 .. Fri 2025-01-10   5 business days of the next year
\*   Sat 2099-01-03 .. Sat 2099-01-03   a Saturday alone
\*   Mon 2099-01-05 .. Mon 2099-01-05   a Monday alone
DateRanges ==
    { << MkDate(2024, 6, 17), MkDate(2024, 6, 16) >>,
      << MkDate(2024, 6, 15), MkDate(2024, 6, 16) >>,
      << MkDate(2024, 6, 17), MkDate(2024, 6, 19) >>,
      << MkDate(2024, 6, 26), MkDate(2024, 7, 8) >>,
      << MkDate(2024, 7, 4), MkDate(2024, 7, 4) >>,
      << MkDate(2025, 1, 6), MkDate(2025, 1, 10) >>,
      << MkDate(2099, 1, 3), MkDate(2099, 1, 3) >>,
      << MkDate(2099, 1, 5), MkDate(2099, 1, 5) >> }

(* ------------------------------------------------------------------ *)
(* State                                                               *)
(* ------------------------------------------------------------------ *)

VARIABLES
    today,                \* date.today()
    hire_date,            \* employees.hire_date, by employees.id
    vacation_requests,    \* the rows of table vacation_requests
    corporate_holidays,   \* the rows of table corporate_holidays
    next_id,              \* the next value of vacation_requests.id
    last,                 \* the last call made and what it answered
    calls,                \* the create_user_vacation calls in progress, by handler thread
    calc,                 \* the last call of a pure function: its arguments and its result
    conversation_history  \* session['conversation_history'] of the chat server

vars == << today, hire_date, vacation_requests, corporate_holidays, next_id, last, calls, calc,
           conversation_history >>

(* ------------------------------------------------------------------ *)
(* Results of a call                                                   *)
(* ------------------------------------------------------------------ *)

\* ValueError("Start date must be before end date")
InvalidRange == "InvalidRange"

\* ValueError("Cannot schedule vacation in the past"),
\* ValueError("Cannot delete past vacation requests")
PastDate == "PastDate"

\* ValueError("No business days in selected date range")
NoBusinessDays == "NoBusinessDays"

\* ValueError("Insufficient vacation days. ..."), ("Insufficient optional holidays. ...")
InsufficientBalance == "InsufficientBalance"

\* ValueError("Vacation request not found")
NotFound == "NotFound"

\* employee['hire_date'].year with hire_date None: AttributeError, not a ValueError
ServerError == "ServerError"

Ok == "ok"

ValidationErrors == { InvalidRange, PastDate, NoBusinessDays, InsufficientBalance, NotFound }

\* status of a row inserted without a status column
DefaultStatus == "approved"

(* ------------------------------------------------------------------ *)
(* db_service.py: the holiday cache                                    *)
(* ------------------------------------------------------------------ *)

holiday_names ==
    << "New Year's Day", "Memorial Day", "Independence Day",
       "Labor Day", "Thanksgiving", "Christmas" >>

\* INSERT ... ON CONFLICT (holiday_date) DO NOTHING
insert_holiday(rows, row) ==
    IF \E r \in rows : r.holiday_date = row.holiday_date THEN rows
    ELSE rows \cup {row}

\* for i, holiday_date in enumerate(holidays): insert (holiday_names[i], holiday_date, year)
RECURSIVE insert_holidays(_, _, _, _)
insert_holidays(rows, holidays, year, i) ==
    IF i > Len(holidays) THEN rows
    ELSE insert_holidays(
             insert_holiday(rows, [name |-> holiday_names[i],
                                   holiday_date |-> holidays[i],
                                   year |-> year]),
             holidays, year, i + 1)

ensure_holidays_synced(rows, year) ==
    IF Cardinality({r \in rows : r.year = year}) = 0
    THEN insert_holidays(rows, get_corporate_holidays(year), year, 1)
    ELSE rows

\* check_and_handle_year_rollover syncing the current year only
rollover_current_year_only(rows, now) ==
    ensure_holidays_synced(rows, YearOf(now))

\* current_year = date.today().year; current and next year are synced
check_and_handle_year_rollover(rows, now) ==
    ensure_holidays_synced(ensure_holidays_synced(rows, YearOf(now)), YearOf(now) + 1)

(* ------------------------------------------------------------------ *)
(* db_service.py: the balance engine                                   *)
(* ------------------------------------------------------------------ *)

RECURSIVE SumBusinessDays(_)
SumBusinessDays(rows) ==
    IF rows = {} THEN 0
    ELSE LET r == CHOOSE x \in rows : TRUE
         IN  r.business_days + SumBusinessDays(rows \ {r})

\* used_days with the year taken from end_date
used_days_by_end_year(rows, employee_id, vacation_type, year) ==
    SumBusinessDays({ r \in rows :
        /\ r.employee_id = employee_id
        /\ r.vacation_type = vacation_type
        /\ YearOf(r.end_date) = year
        /\ r.status = "approved" })

\* SELECT COALESCE(SUM(business_days), 0) FROM vacation_requests WHERE employee_id = ..
\*   AND vacation_type = .. AND EXTRACT(YEAR FROM start_date) = .. AND status = 'approved'
used_days(rows, employee_id, vacation_type, year) ==
    SumBusinessDays({ r \in rows :
        /\ r.employee_id = employee_id
        /\ r.vacation_type = vacation_type
        /\ YearOf(r.start_date) = year
        /\ r.status = "approved" })

\* months_worked with == in the comparison of the days of month
months_worked_day_equal(accrual_start, accrual_end) ==
    (YearOf(accrual_end) - YearOf(accrual_start)) * 12
        + MonthOf(accrual_end) - MonthOf(accrual_start)
        + (IF DayOf(accrual_end) = DayOf(accrual_start) THEN 1 ELSE 0)

\* months_worked with > in the comparison of the days of month
months_worked_day_after(accrual_start, accrual_end) ==
    (YearOf(accrual_end) - YearOf(accrual_start)) * 12
        + MonthOf(accrual_end) - MonthOf(accrual_start)
        + (IF DayOf(accrual_end) > DayOf(accrual_start) THEN 1 ELSE 0)

\* months_worked: the months from accrual_start to accrual_end, the month of
\* accrual_end counted in when its day of month has been reached
months_worked(accrual_start, accrual_end) ==
    (YearOf(accrual_end) - YearOf(accrual_start)) * 12
        + MonthOf(accrual_end) - MonthOf(accrual_start)
        + (IF DayOf(accrual_end) >= DayOf(accrual_start) THEN 1 ELSE 0)

\* accrued = min(12, max(0, months_worked)) if accrual_start <= accrual_end else 0
accrued_between(accrual_start, accrual_end) ==
    IF accrual_start <= accrual_end
    THEN Min(12, Max(0, months_worked(accrual_start, accrual_end)))
    ELSE 0

\* accrued of get_vacation_balance: from the hire date when hired in that year,
\* else from January 1st, until today or December 31st
months_worked_in_year(hire, year, now) ==
    accrued_between(IF YearOf(hire) = year THEN hire ELSE MkDate(year, 1, 1),
                    Min(now, MkDate(year, 12, 31)))

\* prev_year_accrued of get_vacation_balance
accrued_until_previous_year_end(hire, year) ==
    Min(12, calculate_vacation_accrued(hire, MkDate(year - 1, 12, 31)))

\* the years a balance is asked for: start_date.year of the requests
BalanceYears == { YearOf(r[1]) : r \in DateRanges }

\* carryover_into without min(5, ...)
carryover_uncapped(rows, hire, employee_id, year) ==
    IF year > YearOf(hire)
    THEN Max(0, accrued_until_previous_year_end(hire, year)
                  - used_days(rows, employee_id, "vacation", year - 1))
    ELSE 0

\* carryover_into without max(0, ...)
carryover_unfloored(rows, hire, employee_id, year) ==
    IF year > YearOf(hire)
    THEN Min(5, accrued_until_previous_year_end(hire, year)
                  - used_days(rows, employee_id, "vacation", year - 1))
    ELSE 0

\* carryover_into taking the previous year for a full year of 12 days,
\* whenever the employee was hired
carryover_full_previous_year(rows, hire, employee_id, year) ==
    Min(5, Max(0, 12 - used_days(rows, employee_id, "vacation", year - 1)))

\* carryover: up to 5 days of what the previous year left
carryover_into(rows, hire, employee_id, year) ==
    IF year > YearOf(hire)
    THEN Min(5, Max(0, accrued_until_previous_year_end(hire, year)
                         - used_days(rows, employee_id, "vacation", year - 1)))
    ELSE 0

\* the dictionary get_vacation_balance returns
balance_dict(accrued, vacation_used, holidays_used, carryover) ==
    [ vacation_accrued            |-> Min(12, accrued),
      vacation_used               |-> vacation_used,
      vacation_available          |-> Min(12, accrued) + carryover - vacation_used,
      vacation_carryover          |-> carryover,
      optional_holidays_used      |-> holidays_used,
      optional_holidays_available |-> 3 - holidays_used ]

\* get_vacation_balance for an employee whose hire date is set
get_vacation_balance(rows, hire, employee_id, year, now) ==
    balance_dict(months_worked_in_year(hire, year, now),
                 used_days(rows, employee_id, "vacation", year),
                 used_days(rows, employee_id, "optional_holiday", year),
                 carryover_into(rows, hire, employee_id, year))

(* ------------------------------------------------------------------ *)
(* vacation_service.py: create_user_vacation                           *)
(* ------------------------------------------------------------------ *)

\* count_business_days with no holidays at all
count_weekdays(start_date, end_date) ==
    calculate_business_days(start_date, end_date, << >>)

\* business days over [start, end] with the holidays of every year spanned
count_business_days(start_date, end_date) ==
    calculate_business_days(start_date, end_date,
        holidays_for_years(YearOf(start_date), YearOf(end_date)))

\* count_business_days of the ranges requests are made with, computed once
BusinessDaysOfRange == [r \in DateRanges |-> count_business_days(r[1], r[2])]

business_days_of(start_date, end_date) ==
    IF << start_date, end_date >> \in DateRanges
    THEN BusinessDaysOfRange[<< start_date, end_date >>]
    ELSE count_business_days(start_date, end_date)

\* balance_check_fails comparing with what was accrued, not with what is left
balance_check_against_accrued(vacation_type, business_days, balance) ==
    IF vacation_type = "vacation"
    THEN business_days > balance.vacation_accrued + balance.vacation_carryover
    ELSE IF vacation_type = "optional_holiday"
    THEN business_days > balance.optional_holidays_available
    ELSE FALSE

\* balance_check_fails without its elif branch
balance_check_vacation_only(vacation_type, business_days, balance) ==
    IF vacation_type = "vacation"
    THEN business_days > balance.vacation_available
    ELSE FALSE

\* the if / elif on vacation_type: TRUE when the ValueError is raised
balance_check_fails(vacation_type, business_days, balance) ==
    IF vacation_type = "vacation"
    THEN business_days > balance.vacation_available
    ELSE IF vacation_type = "optional_holiday"
    THEN business_days > balance.optional_holidays_available
    ELSE FALSE

\* create_user_vacation_result with the past-date check before the range check
create_result_past_first(rows, hire, now, employee_id, vacation_type, start_date, end_date) ==
    LET business_days == business_days_of(start_date, end_date)
    IN  IF start_date < now THEN PastDate
        ELSE IF start_date > end_date THEN InvalidRange
        ELSE IF business_days = 0 THEN NoBusinessDays
        ELSE IF hire = NoDate THEN ServerError
        ELSE IF balance_check_fails(vacation_type, business_days,
                    get_vacation_balance(rows, hire, employee_id, YearOf(start_date), now))
             THEN InsufficientBalance
        ELSE Ok

\* create_user_vacation_result with a missing hire date taken for an empty balance
create_result_unhired_as_no_balance(rows, hire, now, employee_id, vacation_type, start_date, end_date) ==
    LET business_days == business_days_of(start_date, end_date)
    IN  IF start_date > end_date THEN InvalidRange
        ELSE IF start_date < now THEN PastDate
        ELSE IF business_days = 0 THEN NoBusinessDays
        ELSE IF hire = NoDate THEN InsufficientBalance
        ELSE IF balance_check_fails(vacation_type, business_days,
                    get_vacation_balance(rows, hire, employee_id, YearOf(start_date), now))
             THEN InsufficientBalance
        ELSE Ok

\* what create_user_vacation answers: the first check that fails, in code order
create_user_vacation_result(rows, hire, now, employee_id, vacation_type, start_date, end_date) ==
    LET business_days == business_days_of(start_date, end_date)
    IN  IF start_date > end_date THEN InvalidRange
        ELSE IF start_date < now THEN PastDate
        ELSE IF business_days = 0 THEN NoBusinessDays
        ELSE IF hire = NoDate THEN ServerError
        ELSE IF balance_check_fails(vacation_type, business_days,
                    get_vacation_balance(rows, hire, employee_id, YearOf(start_date), now))
             THEN InsufficientBalance
        ELSE Ok

\* the calls that get as far as db_service.get_vacation_balance
reaches_balance(result) == result \in { ServerError, InsufficientBalance, Ok }

\* persists with the insert ahead of the balance check
persists_before_balance_check(result) == result \in { Ok, InsufficientBalance }

\* db_service.create_vacation_request is reached only when nothing was raised
persists(result) == result = Ok

\* the row INSERT ... RETURNING * creates
new_request(id, employee_id, vacation_type, start_date, end_date, business_days) ==
    [ id            |-> id,
      employee_id   |-> employee_id,
      vacation_type |-> vacation_type,
      start_date    |-> start_date,
      end_date      |-> end_date,
      business_days |-> business_days,
      status        |-> DefaultStatus ]

Call(op, employee_id, vacation_type, start_date, end_date, vacation_id, result) ==
    [ op            |-> op,
      employee_id   |-> employee_id,
      vacation_type |-> vacation_type,
      start_date    |-> start_date,
      end_date      |-> end_date,
      vacation_id   |-> vacation_id,
      result        |-> result ]

NoCall == Call("none", 0, "", NoDate, NoDate, NoId, Ok)

CreateVacation(e, t, s, en) ==
    \E result \in { create_user_vacation_result(vacation_requests, hire_date[e], today, e, t, s, en) } :
        /\ persists(result) => next_id <= MaxId
        /\ corporate_holidays' =
              IF reaches_balance(result)
              THEN check_and_handle_year_rollover(corporate_holidays, today)
              ELSE corporate_holidays
        /\ IF persists(result)
           THEN /\ vacation_requests' = vacation_requests \cup
                       { new_request(next_id, e, t, s, en, business_days_of(s, en)) }
                /\ next_id' = next_id + 1
                /\ last' = Call("create", e, t, s, en, next_id, result)
           ELSE /\ UNCHANGED << vacation_requests, next_id >>
                /\ last' = Call("create", e, t, s, en, NoId, result)
        /\ UNCHANGED << today, hire_date, calls, calc, conversation_history >>

(* ------------------------------------------------------------------ *)
(* vacation_service.py: delete_user_vacation                           *)
(* ------------------------------------------------------------------ *)

\* get_vacation_by_id without the employee_id condition
get_vacation_by_id_any_owner(rows, vacation_id, employee_id) ==
    { r \in rows : r.id = vacation_id }

\* SELECT * FROM vacation_requests WHERE id = %s AND employee_id = %s
get_vacation_by_id(rows, vacation_id, employee_id) ==
    { r \in rows : r.id = vacation_id /\ r.employee_id = employee_id }

\* delete_vacation_request with <= for = in the WHERE
delete_up_to_id(rows, vacation_id) ==
    { r \in rows : r.id > vacation_id }

\* DELETE FROM vacation_requests WHERE id = %s
delete_vacation_request(rows, vacation_id) ==
    { r \in rows : r.id # vacation_id }

\* is_past_request with <= for <
is_past_or_today(start_date, now) == start_date <= now

\* is_past_request that never raises
is_never_past(start_date, now) == FALSE

\* if vacation['start_date'] < date.today(): raise
is_past_request(start_date, now) == start_date < now

delete_user_vacation_result(rows, now, employee_id, vacation_id) ==
    LET found == get_vacation_by_id(rows, vacation_id, employee_id)
    IN  IF found = {} THEN NotFound
        ELSE IF \E v \in found : is_past_request(v.start_date, now) THEN PastDate
        ELSE Ok

\* The call record of a delete holds, besides the id asked for, the type and
\* dates of the row get_vacation_by_id found (the local `vacation`), if any.
DeleteVacation(e, id) ==
    \E result \in { delete_user_vacation_result(vacation_requests, today, e, id) } :
        /\ vacation_requests' =
              IF result = Ok THEN delete_vacation_request(vacation_requests, id)
              ELSE vacation_requests
        /\ \/ /\ get_vacation_by_id(vacation_requests, id, e) = {}
              /\ last' = Call("delete", e, "", NoDate, NoDate, id, result)
           \/ \E v \in get_vacation_by_id(vacation_requests, id, e) :
                 last' = Call("delete", e, v.vacation_type, v.start_date, v.end_date, id, result)
        /\ UNCHANGED << today, hire_date, corporate_holidays, next_id, calls, calc, conversation_history >>

\* SELECT * FROM vacation_requests WHERE employee_id = %s (ORDER BY start_date DESC)
get_vacations_for_employee(rows, employee_id) ==
    { r \in rows : r.employee_id = employee_id }

(* ------------------------------------------------------------------ *)
(* The clock                                                           *)
(* ------------------------------------------------------------------ *)

\* date.today() moves forward between two calls
AdvanceDay ==
    /\ \E d \in TodayDates : d > today /\ today' = d
    /\ last' = NoCall
    /\ UNCHANGED << hire_date, vacation_requests, corporate_holidays, next_id, calls, calc, conversation_history >>

(* ------------------------------------------------------------------ *)
(* create_user_vacation as its two storage steps                       *)
(* ------------------------------------------------------------------ *)

\* the requests the threaded server handles at the same time, one call each
Procs == {1, 2}

NoBalance ==
    [ vacation_accrued            |-> 0,
      vacation_used               |-> 0,
      vacation_available          |-> 0,
      vacation_carryover          |-> 0,
      optional_holidays_used      |-> 0,
      optional_holidays_available |-> 0 ]

\* the locals of one create_user_vacation call: pc is "idle" before a call,
\* "checked" between the balance check and the insert, "done" after the call
CallFrame(pc, employee_id, vacation_type, start_date, end_date, business_days, balance, result, vacation_id) ==
    [ pc            |-> pc,
      employee_id   |-> employee_id,
      vacation_type |-> vacation_type,
      start_date    |-> start_date,
      end_date      |-> end_date,
      business_days |-> business_days,
      balance       |-> balance,
      result        |-> result,
      vacation_id   |-> vacation_id ]

IdleFrame == CallFrame("idle", 0, "", NoDate, NoDate, 0, NoBalance, Ok, NoId)

\* the calls that have passed the balance check and not inserted yet
Checked == { q \in Procs : calls[q].pc = "checked" }

\* create_user_vacation up to the balance check: the validations, then
\* db_service.get_vacation_balance in a connection of its own, then the
\* if / elif on the balance it returned. Nothing is locked when it returns.
ReadBalance(p, e, t, s, en) ==
    /\ calls[p].pc = "idle"
    /\ \E result \in { create_user_vacation_result(vacation_requests, hire_date[e], today, e, t, s, en) } :
          /\ persists(result) => next_id + Cardinality(Checked) <= MaxId
          /\ corporate_holidays' =
                IF reaches_balance(result)
                THEN check_and_handle_year_rollover(corporate_holidays, today)
                ELSE corporate_holidays
          /\ calls' = [calls EXCEPT ![p] =
                CallFrame(IF persists(result) THEN "checked" ELSE "done",
                          e, t, s, en, business_days_of(s, en),
                          IF result \in { Ok, InsufficientBalance }
                          THEN get_vacation_balance(vacation_requests, hire_date[e], e, YearOf(s), today)
                          ELSE NoBalance,
                          result, NoId)]
    /\ UNCHANGED << today, hire_date, vacation_requests, next_id, last, calc, conversation_history >>

\* the rest of create_user_vacation: db_service.create_vacation_request opens
\* a new connection and inserts the row with the business days computed before
InsertRequest(p) ==
    /\ calls[p].pc = "checked"
    /\ vacation_requests' = vacation_requests \cup
           { new_request(next_id, calls[p].employee_id, calls[p].vacation_type,
                         calls[p].start_date, calls[p].end_date, calls[p].business_days) }
    /\ next_id' = next_id + 1
    /\ calls' = [calls EXCEPT ![p].pc = "done", ![p].vacation_id = next_id]
    /\ UNCHANGED << today, hire_date, corporate_holidays, last, calc, conversation_history >>

(* ------------------------------------------------------------------ *)
(* The pure functions, called on their own                             *)
(* ------------------------------------------------------------------ *)

PureCall(op, args, result) == [ op |-> op, args |-> args, result |-> result ]

NoCalc == PureCall("none", << >>, 0)

\* the years the holiday functions are called with
FirstYear == 1990

LastYear == 2100

HolidayYears == FirstYear..LastYear

\* vacation_service.get_holidays_for_year: its own list of names, zipped by
\* position with the list utils.get_corporate_holidays returns
service_holiday_names ==
    << "New Year's Day", "Memorial Day", "Independence Day",
       "Labor Day", "Thanksgiving", "Christmas" >>

get_holidays_for_year(year) ==
    [ i \in 1..Len(get_corporate_holidays(year)) |->
          [ name |-> service_holiday_names[i], date |-> get_corporate_holidays(year)[i] ] ]

CallGetCorporateHolidays(year) ==
    /\ calc.op = "none"
    /\ calc' = PureCall("get_corporate_holidays", << year >>, get_corporate_holidays(year))
    /\ UNCHANGED << today, hire_date, vacation_requests, corporate_holidays, next_id, last, calls, conversation_history >>

CallGetHolidaysForYear(year) ==
    /\ calc.op = "none"
    /\ calc' = PureCall("get_holidays_for_year", << year >>, get_holidays_for_year(year))
    /\ UNCHANGED << today, hire_date, vacation_requests, corporate_holidays, next_id, last, calls, conversation_history >>

\* The dates calculate_business_days is called with: Fri 2024-06-28 to
\* Mon 2024-07-08, a window with two weekends and Independence Day (a Thursday)
CounterDates == MkDate(2024, 6, 28)..MkDate(2024, 7, 8)

\* The holiday lists it is called with: none, the list of the year, a list
\* with one date twice, a list with duplicates and a Saturday in it
CounterHolidays ==
    { << >>,
      get_corporate_holidays(2024),
      << MkDate(2024, 7, 4), MkDate(2024, 7, 4) >>,
      << MkDate(2024, 7, 5), MkDate(2024, 7, 4), MkDate(2024, 7, 5), MkDate(2024, 6, 29) >> }

CallCalculateBusinessDays(start_date, end_date, holidays) ==
    /\ calc.op = "none"
    /\ calc' = PureCall("calculate_business_days", << start_date, end_date, holidays >>,
                        calculate_business_days(start_date, end_date, holidays))
    /\ UNCHANGED << today, hire_date, vacation_requests, corporate_holidays, next_id, last, calls, conversation_history >>

\* The dates calculate_vacation_accrued is called with, as (year, month, day)
AccrualDates == { << y, m, d >> : y \in {2023, 2024}, m \in {1, 2, 3, 12}, d \in {1, 10, 15, 28} }

\* date(year, month, day) of such a triple
DateOf(ymd) == MkDate(ymd[1], ymd[2], ymd[3])

CallCalculateVacationAccrued(hire, ref) ==
    /\ calc.op = "none"
    /\ calc' = PureCall("calculate_vacation_accrued", << hire, ref >>,
                        calculate_vacation_accrued(DateOf(hire), DateOf(ref)))
    /\ UNCHANGED << today, hire_date, vacation_requests, corporate_holidays, next_id, last, calls, conversation_history >>

(* ------------------------------------------------------------------ *)
(* vacation_service.py: get_user_vacation_balance                      *)
(* ------------------------------------------------------------------ *)

\* what a balance read answers: the dictionary, or the AttributeError of
\* employee['hire_date'].year when the hire date is not set
BalanceAnswer(status, balance) == [ status |-> status, balance |-> balance ]

get_user_vacation_balance(rows, hire, employee_id, year, now) ==
    IF hire = NoDate THEN BalanceAnswer(ServerError, NoBalance)
    ELSE BalanceAnswer(Ok, get_vacation_balance(rows, hire, employee_id, year, now))

\* the read syncs the holidays of this year and the next before anything else
GetBalance(e, year) ==
    /\ calc' = PureCall("get_vacation_balance", << e, year >>,
                        get_user_vacation_balance(vacation_requests, hire_date[e], e, year, today))
    /\ corporate_holidays' = check_and_handle_year_rollover(corporate_holidays, today)
    /\ last' = Call("balance", e, "", NoDate, NoDate, NoId,
                    get_user_vacation_balance(vacation_requests, hire_date[e], e, year, today).status)
    /\ UNCHANGED << today, hire_date, vacation_requests, next_id, calls, conversation_history >>

\* The databases a balance is read from: employee 1 with one of these hire
\* dates, employee 2 without one, any of these rows stored, on one of these days
BalanceHires ==
    { MkDate(2023, 3, 10), MkDate(2024, 3, 10), MkDate(2024, 6, 20), MkDate(2025, 2, 1) }

BalanceTodays ==
    { MkDate(2024, 6, 15), MkDate(2024, 6, 17), MkDate(2024, 12, 31), MkDate(2025, 1, 1) }

TargetYears == 2022..2026

\* Mon 2023-11-06 .. Wed 2023-11-15 (8 days), Mon 2023-12-04 .. Tue 2023-12-12
\* (7 days), Mon 2024-06-17 .. Wed 2024-06-19 (3 days, of either type)
StoredRows ==
    { new_request(1, 1, "vacation", MkDate(2023, 11, 6), MkDate(2023, 11, 15), 8),
      new_request(2, 1, "vacation", MkDate(2023, 12, 4), MkDate(2023, 12, 12), 7),
      new_request(3, 1, "vacation", MkDate(2024, 6, 17), MkDate(2024, 6, 19), 3),
      new_request(4, 1, "optional_holiday", MkDate(2024, 6, 17), MkDate(2024, 6, 19), 3) }

(* ------------------------------------------------------------------ *)
(* vacation_service.py: update_user_hire_date, sync_holidays_for_year  *)
(* ------------------------------------------------------------------ *)

\* the hire dates PUT /employees/me is called with
NewHireDates == { MkDate(2023, 3, 10), MkDate(2024, 3, 10) }

\* UPDATE employees SET hire_date = %s WHERE id = %s
UpdateHireDate(e, h) ==
    /\ hire_date' = [hire_date EXCEPT ![e] = h]
    /\ last' = NoCall
    /\ UNCHANGED << today, vacation_requests, corporate_holidays, next_id, calls, calc, conversation_history >>

\* the years GET /holidays is asked for
OpsYears == { 2024, 2025 }

\* DELETE FROM corporate_holidays WHERE year = %s, then one plain INSERT for
\* each calculated date
sync_holidays_to_db(rows, year) ==
    { r \in rows : r.year # year }
        \cup { [name |-> holiday_names[i],
                holiday_date |-> get_corporate_holidays(year)[i],
                year |-> year] : i \in 1..Len(get_corporate_holidays(year)) }

SyncHolidays(year) ==
    /\ corporate_holidays' = sync_holidays_to_db(corporate_holidays, year)
    /\ last' = NoCall
    /\ UNCHANGED << today, hire_date, vacation_requests, next_id, calls, calc, conversation_history >>

(* ------------------------------------------------------------------ *)
(* hrhelper: chat_service.py and the /api/chat route of server.py      *)
(* ------------------------------------------------------------------ *)

\* MAX_CONVERSATION_MESSAGES = int(os.getenv('MAX_CONVERSATION_MESSAGES', '20'))
MAX_CONVERSATION_MESSAGES == 20

\* a message of the conversation; content stands for the text, and for the
\* messages of a turn it is the user message they answer
Message(role, content) == [ role |-> role, content |-> content ]

\* {"role": "system", "content": chattie.get_initial_prompt()}
SystemPrompt == Message("system", "prompt")

\* trim_conversation_history keeping the last max_messages + 1 messages
trim_last_messages(history, max_messages) ==
    IF Len(history) <= max_messages + 1 THEN history
    ELSE SubSeq(history, Len(history) - max_messages, Len(history))

\* history[-(max_messages):] is the whole list when max_messages is 0
trim_conversation_history(history, max_messages) ==
    IF Len(history) <= max_messages + 1 THEN history
    ELSE << history[1] >> \o
         (IF max_messages = 0 THEN history
          ELSE SubSeq(history, Len(history) - max_messages + 1, Len(history)))

\* the tool messages of a turn, one for each tool call of the model
tool_messages(content, tool_calls) ==
    [ i \in 1..tool_calls |-> Message("tool", << content, i >>) ]

\* ChatService.chat: the assistant message with the tool calls and the tool
\* results are appended when the model calls tools, then the final assistant
\* message; the whole list is trimmed and returned
chat(messages, content, tool_calls) ==
    trim_conversation_history(
        (IF tool_calls > 0
         THEN messages \o << Message("assistant", << content, "tool_calls" >>) >>
                       \o tool_messages(content, tool_calls)
         ELSE messages)
        \o << Message("assistant", content) >>,
        MAX_CONVERSATION_MESSAGES)

\* 'conversation_history' not in session
NoSession == << >>

\* the history the route works on: a new one holds the system prompt
history_of_session(history) ==
    IF history = NoSession THEN << SystemPrompt >> ELSE history

\* the user messages sent in a session, each sent once
UserMessages == { "m1", "m2", "m3", "m4" }

\* the tool calls the model asks for in one turn
MaxToolCalls == 2

\* POST /api/chat: the user message is appended to the session's history, a
\* copy goes to ChatService.chat, and what chat returns is appended with extend
Chat(content, tool_calls) ==
    /\ \A i \in 1..Len(conversation_history) :
           conversation_history[i] # Message("user", content)
    /\ conversation_history' =
           (history_of_session(conversation_history) \o << Message("user", content) >>)
           \o chat(history_of_session(conversation_history) \o << Message("user", content) >>,
                   content, tool_calls)
    /\ UNCHANGED << today, hire_date, vacation_requests, corporate_holidays, next_id, last,
                    calls, calc >>

\* POST /api/auth/logout: session.clear()
Logout ==
    /\ conversation_history' = NoSession
    /\ UNCHANGED << today, hire_date, vacation_requests, corporate_holidays, next_id, last,
                    calls, calc >>

\* the lists trim_conversation_history is called with
MaxHistoryLen == 5

MaxKeep == 3

TrimMessages ==
    { SystemPrompt, Message("user", "m1"), Message("assistant", "m1"),
      Message("tool", << "m1", 1 >>) }

TrimHistories == UNION { [1..n -> TrimMessages] : n \in 0..MaxHistoryLen }

CallTrimConversationHistory(history, max_messages) ==
    /\ calc.op = "none"
    /\ calc' = PureCall("trim_conversation_history", << history, max_messages >>,
                        trim_conversation_history(history, max_messages))
    /\ UNCHANGED << today, hire_date, vacation_requests, corporate_holidays, next_id, last,
                    calls, conversation_history >>

(* ------------------------------------------------------------------ *)
(* One call at a time                                                  *)
(* ------------------------------------------------------------------ *)

Init ==
    /\ today = MkDate(2024, 6, 17)
    /\ hire_date \in [Employees -> HireDates]
    /\ vacation_requests = {}
    /\ corporate_holidays = {}
    /\ next_id = 1
    /\ last = NoCall
    /\ calls = [p \in Procs |-> IdleFrame]
    /\ calc = NoCalc
    /\ conversation_history = NoSession

Next ==
    \/ \E e \in Employees, t \in VacationTypes, r \in DateRanges :
           CreateVacation(e, t, r[1], r[2])
    \/ \E e \in Employees, id \in 1..MaxId : DeleteVacation(e, id)
    \/ AdvanceDay

Spec == Init /\ [][Next]_vars

(* ------------------------------------------------------------------ *)
(* Calls of several threads, interleaved at their storage steps        *)
(* ------------------------------------------------------------------ *)

NextConc ==
    \/ \E p \in Procs, e \in Employees, t \in VacationTypes, r \in DateRanges :
           ReadBalance(p, e, t, r[1], r[2])
    \/ \E p \in Procs : InsertRequest(p)

SpecConc == Init /\ [][NextConc]_vars

(* ------------------------------------------------------------------ *)
(* Calls of the pure functions, on an empty database                   *)
(* ------------------------------------------------------------------ *)

InitPure ==
    /\ today = MkDate(2024, 6, 17)
    /\ hire_date = [e \in Employees |-> NoDate]
    /\ vacation_requests = {}
    /\ corporate_holidays = {}
    /\ next_id = 1
    /\ last = NoCall
    /\ calls = [p \in Procs |-> IdleFrame]
    /\ calc = NoCalc
    /\ conversation_history = NoSession

NextPure ==
    \/ \E year \in HolidayYears : CallGetCorporateHolidays(year)
    \/ \E year \in HolidayYears : CallGetHolidaysForYear(year)
    \/ \E start_date \in CounterDates, end_date \in CounterDates, holidays \in CounterHolidays :
           CallCalculateBusinessDays(start_date, end_date, holidays)
    \/ \E hire \in AccrualDates, ref \in AccrualDates : CallCalculateVacationAccrued(hire, ref)
    \/ \E history \in TrimHistories, max_messages \in 0..MaxKeep :
           CallTrimConversationHistory(history, max_messages)

SpecPure == InitPure /\ [][NextPure]_vars

(* ------------------------------------------------------------------ *)
(* Every operation that runs between the creation of a request and its *)
(* deletion                                                            *)
(* ------------------------------------------------------------------ *)

\* the ranges requests are made with here: 3 business days, 8 business days
\* around Independence Day, and Independence Day alone
OpsRanges ==
    { << MkDate(2024, 6, 17), MkDate(2024, 6, 19) >>,
      << MkDate(2024, 6, 26), MkDate(2024, 7, 8) >>,
      << MkDate(2024, 7, 4), MkDate(2024, 7, 4) >> }

\* both employees were hired on 2023-03-10 when the first request is made
InitOps ==
    /\ today = MkDate(2024, 6, 17)
    /\ hire_date = [e \in Employees |-> MkDate(2023, 3, 10)]
    /\ vacation_requests = {}
    /\ corporate_holidays = {}
    /\ next_id = 1
    /\ last = NoCall
    /\ calls = [p \in Procs |-> IdleFrame]
    /\ calc = NoCalc
    /\ conversation_history = NoSession

\* GET /employees/me/balance passes no year: the balance is that of this year
NextOps ==
    \/ \E e \in Employees, t \in VacationTypes, r \in OpsRanges :
           CreateVacation(e, t, r[1], r[2])
    \/ \E e \in Employees, id \in 1..MaxId : DeleteVacation(e, id)
    \/ AdvanceDay
    \/ \E e \in Employees, h \in NewHireDates : UpdateHireDate(e, h)
    \/ \E e \in Employees : GetBalance(e, YearOf(today))
    \/ \E year \in OpsYears : SyncHolidays(year)

SpecOps == InitOps /\ [][NextOps]_vars

(* ------------------------------------------------------------------ *)
(* The holiday cache under balance reads and syncs, over a new year    *)
(* ------------------------------------------------------------------ *)

\* date.today() at a later call
AdvanceTo(d) ==
    /\ d > today
    /\ today' = d
    /\ last' = NoCall
    /\ UNCHANGED << hire_date, vacation_requests, corporate_holidays, next_id, calls, calc, conversation_history >>

CacheTodays == { MkDate(2024, 12, 31), MkDate(2025, 1, 1) }

\* the years GET /holidays and the balance are asked for
CacheYears == 2023..2026

InitCache ==
    /\ today \in CacheTodays
    /\ hire_date = [e \in Employees |-> IF e = 1 THEN MkDate(2023, 3, 10) ELSE NoDate]
    /\ vacation_requests = {}
    /\ corporate_holidays = {}
    /\ next_id = 1
    /\ last = NoCall
    /\ calls = [p \in Procs |-> IdleFrame]
    /\ calc = NoCalc
    /\ conversation_history = NoSession

NextCache ==
    \/ \E e \in Employees, year \in CacheYears : GetBalance(e, year)
    \/ \E year \in CacheYears : SyncHolidays(year)
    \/ \E d \in CacheTodays : AdvanceTo(d)

SpecCache == InitCache /\ [][NextCache]_vars

(* ------------------------------------------------------------------ *)
(* Requests that span December 31st                                    *)
(* ------------------------------------------------------------------ *)

\* Mon 2024-12-30 .. Fri 2025-01-03 (4 business days, 2 of them in 2025),
\* Wed 2024-06-26 .. Mon 2024-07-08 (8), Mon 2024-06-17 .. Wed 2024-06-19 (3)
SpanRanges ==
    { << MkDate(2024, 12, 30), MkDate(2025, 1, 3) >>,
      << MkDate(2024, 6, 26), MkDate(2024, 7, 8) >>,
      << MkDate(2024, 6, 17), MkDate(2024, 6, 19) >> }

SpanYears == { 2024, 2025 }

InitSpan ==
    /\ today = MkDate(2024, 6, 17)
    /\ hire_date = [e \in Employees |-> IF e = 1 THEN MkDate(2023, 3, 10) ELSE MkDate(2024, 3, 10)]
    /\ vacation_requests = {}
    /\ corporate_holidays = {}
    /\ next_id = 1
    /\ last = NoCall
    /\ calls = [p \in Procs |-> IdleFrame]
    /\ calc = NoCalc
    /\ conversation_history = NoSession

NextSpan ==
    \/ \E e \in Employees, t \in VacationTypes, r \in SpanRanges :
           CreateVacation(e, t, r[1], r[2])
    \/ \E e \in Employees, year \in SpanYears : GetBalance(e, year)

SpecSpan == InitSpan /\ [][NextSpan]_vars

(* ------------------------------------------------------------------ *)
(* Employees right after their first access: no hire date yet          *)
(* ------------------------------------------------------------------ *)

InitFirstAccess ==
    /\ today = MkDate(2024, 6, 17)
    /\ hire_date = [e \in Employees |-> NoDate]
    /\ vacation_requests = {}
    /\ corporate_holidays = {}
    /\ next_id = 1
    /\ last = NoCall
    /\ calls = [p \in Procs |-> IdleFrame]
    /\ calc = NoCalc
    /\ conversation_history = NoSession

\* employee 1 may set a hire date, employee 2 never does
NextFirstAccess ==
    \/ \E e \in Employees, t \in VacationTypes, r \in DateRanges :
           CreateVacation(e, t, r[1], r[2])
    \/ \E e \in Employees, year \in OpsYears : GetBalance(e, year)
    \/ \E h \in NewHireDates : UpdateHireDate(1, h)
    \/ AdvanceDay

SpecFirstAccess == InitFirstAccess /\ [][NextFirstAccess]_vars

(* ------------------------------------------------------------------ *)
(* Requests of any type                                                *)
(* ------------------------------------------------------------------ *)

\* body['vacation_type'] is passed on as it comes: any string
AnyTypes == VacationTypes \cup { "sick", "" }

NextAnyType ==
    \/ \E e \in Employees, t \in AnyTypes, r \in OpsRanges :
           CreateVacation(e, t, r[1], r[2])
    \/ \E e \in Employees : GetBalance(e, YearOf(today))

SpecAnyType == InitOps /\ [][NextAnyType]_vars

(* ------------------------------------------------------------------ *)
(* Balance reads day after day, through a year                         *)
(* ------------------------------------------------------------------ *)

\* hired before, in (on a 31st, a 29th, a 20th) and after the year read
YearlongHires ==
    { MkDate(2023, 3, 10), MkDate(2024, 1, 31), MkDate(2024, 2, 29),
      MkDate(2024, 6, 20), MkDate(2025, 2, 1) }

FirstDay == MkDate(2023, 12, 30)

LastDay == MkDate(2025, 1, 3)

YearlongYears == { 2023, 2024 }

InitYearlong ==
    /\ today = FirstDay
    /\ hire_date \in { h \in [Employees -> YearlongHires \cup {NoDate}] :
                           h[1] # NoDate /\ h[2] = NoDate }
    /\ vacation_requests = {}
    /\ corporate_holidays = {}
    /\ next_id = 1
    /\ last = NoCall
    /\ calls = [p \in Procs |-> IdleFrame]
    /\ calc = NoCalc
    /\ conversation_history = NoSession

NextYearlong ==
    \/ today < LastDay /\ AdvanceTo(today + 1)
    \/ \E year \in YearlongYears : GetBalance(1, year)

SpecYearlong == InitYearlong /\ [][NextYearlong]_vars

(* ------------------------------------------------------------------ *)
(* The turns of one chat session                                       *)
(* ------------------------------------------------------------------ *)

NextChat ==
    \/ \E content \in UserMessages, tool_calls \in 0..MaxToolCalls : Chat(content, tool_calls)
    \/ Logout

SpecChat == InitPure /\ [][NextChat]_vars

(* ------------------------------------------------------------------ *)
(* Balance reads, on any database                                      *)
(* ------------------------------------------------------------------ *)

InitBalance ==
    /\ today \in BalanceTodays
    /\ hire_date \in { h \in [Employees -> BalanceHires \cup {NoDate}] :
                           h[1] # NoDate /\ h[2] = NoDate }
    /\ vacation_requests \in SUBSET StoredRows
    /\ corporate_holidays = {}
    /\ next_id = 5
    /\ last = NoCall
    /\ calls = [p \in Procs |-> IdleFrame]
    /\ calc = NoCalc
    /\ conversation_history = NoSession

NextBalance == \E e \in Employees, year \in TargetYears : GetBalance(e, year)

SpecBalance == InitBalance /\ [][NextBalance]_vars

(* ------------------------------------------------------------------ *)
(* Properties                                                          *)
(* ------------------------------------------------------------------ *)

\* the employees whose hire date is set
Hired == { e \in Employees : hire_date[e] # NoDate }

\* the balance of employee e for a year, over given rows, as of today
BalanceOf(rows, e, year) == get_vacation_balance(rows, hire_date[e], e, year, today)

\* the days a request of the given type may still take, in a balance
AvailableFor(vacation_type, balance) ==
    IF vacation_type = "vacation" THEN balance.vacation_available
    ELSE balance.optional_holidays_available

\* C1: create_vacation reports only the first failing check, in the order
\* InvalidRange (start > end), PastDate (start < today), NoBusinessDays
\* (business days = 0), InsufficientBalance: whatever else is wrong with the
\* request, start > end answers InvalidRange, and a start before today with
\* start <= end answers PastDate, also for a range of weekend days only.
C1_FirstFailureWins ==
    last.op = "create" =>
        LET s  == last.start_date
            en == last.end_date
            bd == business_days_of(s, en)
        IN  /\ s > en => last.result = InvalidRange
            /\ (s <= en /\ s < today) => last.result = PastDate
            /\ (s <= en /\ s >= today /\ bd = 0) => last.result = NoBusinessDays
            /\ last.result = InsufficientBalance => (s <= en /\ s >= today /\ bd > 0)

\* a request with start > end and start in the past was answered InvalidRange
C1_Witness ==
    /\ last.op = "create"
    /\ last.start_date > last.end_date
    /\ last.start_date < today
    /\ last.result = InvalidRange

\* C2: a create_vacation that fails with a validation error leaves the stored
\* requests exactly as they were, and a request is written only by a call
\* that every check has passed.
C2_FailureWritesNothing ==
    [][ last'.op = "create" =>
          /\ last'.result \in ValidationErrors => vacation_requests' = vacation_requests
          /\ vacation_requests' # vacation_requests =>
                /\ last'.result = Ok
                /\ last'.start_date <= last'.end_date
                /\ last'.start_date >= today
                /\ business_days_of(last'.start_date, last'.end_date) > 0
                /\ business_days_of(last'.start_date, last'.end_date) <=
                      AvailableFor(last'.vacation_type,
                          BalanceOf(vacation_requests, last'.employee_id,
                                    YearOf(last'.start_date))) ]_vars

\* a create was refused for its balance while requests were stored
C2_Witness ==
    /\ last.op = "create"
    /\ last.result = InsufficientBalance
    /\ vacation_requests # {}

\* C3: a create_vacation that reaches the balance check fails with
\* InsufficientBalance exactly when its business days exceed the available
\* days of its type in the balance of the start date's year read by that call;
\* so every request persisted had business_days <= that available balance.
C3_BalanceCheck ==
    [][ ( /\ last'.op = "create"
          /\ last'.start_date <= last'.end_date
          /\ last'.start_date >= today
          /\ business_days_of(last'.start_date, last'.end_date) > 0
          /\ last'.employee_id \in Hired )
        =>
        LET bd        == business_days_of(last'.start_date, last'.end_date)
            available == AvailableFor(last'.vacation_type,
                             BalanceOf(vacation_requests, last'.employee_id,
                                       YearOf(last'.start_date)))
        IN  /\ bd > available => last'.result = InsufficientBalance
            /\ bd <= available =>
                  /\ last'.result = Ok
                  /\ \E r \in vacation_requests' \ vacation_requests :
                        /\ r.id = last'.vacation_id
                        /\ r.business_days = bd
                        /\ r.business_days <= available ]_vars

\* a vacation request was persisted that used the available balance up
C3_Witness ==
    /\ last.op = "create"
    /\ last.result = Ok
    /\ last.vacation_type = "vacation"
    /\ \E r \in vacation_requests :
          /\ r.id = last.vacation_id
          /\ r.business_days = 5
          /\ BalanceOf(vacation_requests, last.employee_id, YearOf(r.start_date)).vacation_available = 0

\* C4: with one call at a time, from no stored requests and a fixed hire date,
\* vacation_available and optional_holidays_available are >= 0 for every
\* year after any sequence of create_vacation and delete_vacation calls.
C4_AvailabilityNeverNegative ==
    \A e \in Hired, y \in BalanceYears :
        /\ BalanceOf(vacation_requests, e, y).vacation_available >= 0
        /\ BalanceOf(vacation_requests, e, y).optional_holidays_available >= 0

\* C5: with one call at a time, the business days of an employee's stored
\* approved optional_holiday requests starting in a year never sum above 3.
C5_OptionalHolidayCap ==
    \A e \in Employees, y \in BalanceYears :
        SumBusinessDays({ r \in vacation_requests :
            /\ r.employee_id = e
            /\ r.vacation_type = "optional_holiday"
            /\ r.status = "approved"
            /\ YearOf(r.start_date) = y }) <= 3

\* all 3 optional holidays of a year are taken and one more request was refused
C5_Witness ==
    /\ last.op = "create"
    /\ last.vacation_type = "optional_holiday"
    /\ last.result = InsufficientBalance
    /\ used_days(vacation_requests, last.employee_id, "optional_holiday",
                 YearOf(last.start_date)) = 3

\* a start date that is a weekday and no corporate holiday of its year
IsWorkingDay(d) == Weekday(d) < 5 /\ d \notin Range(get_corporate_holidays(YearOf(d)))

\* a create_vacation of type vacation for the single day d, not in the past,
\* by an employee whose balance of d's year has at least one day available
SingleDayCall(call, d) ==
    /\ call.op = "create"
    /\ call.vacation_type = "vacation"
    /\ call.start_date = d
    /\ call.end_date = d
    /\ d >= today
    /\ call.employee_id \in Hired
    /\ BalanceOf(vacation_requests, call.employee_id, YearOf(d)).vacation_available >= 1

\* the call stored one new request, of 1 business day and status approved
StoredOneDay(call, rows_before, rows_after) ==
    /\ call.result = Ok
    /\ \E r \in rows_after \ rows_before :
          /\ rows_after = rows_before \cup {r}
          /\ r.id = call.vacation_id
          /\ r.employee_id = call.employee_id
          /\ r.start_date = call.start_date
          /\ r.end_date = call.end_date
          /\ r.business_days = 1
          /\ r.status = "approved"

\* C7 as stated: a single-day vacation request on a non-holiday weekday that is
\* not in the past succeeds with sufficient balance and stores business_days = 1,
\* status approved; and start = end = 2099-01-03 is such a request.
C7_AsStated ==
    [][ /\ \A d \in { r[1] : r \in DateRanges } :
              (SingleDayCall(last', d) /\ IsWorkingDay(d))
                  => StoredOneDay(last', vacation_requests, vacation_requests')
        /\ SingleDayCall(last', MkDate(2099, 1, 3))
              => StoredOneDay(last', vacation_requests, vacation_requests') ]_vars

\* C7 (amended): a single-day vacation request on a non-holiday weekday that is
\* not in the past succeeds with sufficient balance and stores business_days = 1,
\* status approved; 2099-01-05 (a Monday) is such a request, while 2099-01-03
\* is a Saturday and is refused with NoBusinessDays.
C7_SingleWorkingDay ==
    [][ /\ \A d \in { r[1] : r \in DateRanges } :
              (SingleDayCall(last', d) /\ IsWorkingDay(d))
                  => StoredOneDay(last', vacation_requests, vacation_requests')
        /\ SingleDayCall(last', MkDate(2099, 1, 5))
              => StoredOneDay(last', vacation_requests, vacation_requests')
        /\ SingleDayCall(last', MkDate(2099, 1, 3))
              => (last'.result = NoBusinessDays /\ vacation_requests' = vacation_requests) ]_vars

\* the request for Monday 2099-01-05 was stored with 1 business day, approved
C7_Witness ==
    /\ last.op = "create"
    /\ last.result = Ok
    /\ last.vacation_type = "vacation"
    /\ last.start_date = MkDate(2099, 1, 5)
    /\ last.end_date = MkDate(2099, 1, 5)
    /\ \E r \in vacation_requests :
          r.id = last.vacation_id /\ r.business_days = 1 /\ r.status = "approved"

\* C8: delete_vacation with the id of a request of another employee answers
\* NotFound and leaves it stored; a delete never removes a request that does
\* not belong to the caller.
C8_ForeignDelete ==
    [][ last'.op = "delete" =>
          /\ (\E r \in vacation_requests :
                 r.id = last'.vacation_id /\ r.employee_id # last'.employee_id)
                => (last'.result = NotFound /\ vacation_requests' = vacation_requests)
          /\ \A r \in vacation_requests :
                 r.employee_id # last'.employee_id => r \in vacation_requests' ]_vars

\* a delete of another employee's stored request was answered NotFound
C8_Witness ==
    /\ last.op = "delete"
    /\ last.result = NotFound
    /\ \E r \in vacation_requests :
          r.id = last.vacation_id /\ r.employee_id # last.employee_id

\* C9: delete_vacation on a request of the caller answers PastDate and leaves
\* it stored when its start date is before today; otherwise the request is
\* removed: it is in no list of vacations and counts in no used days.
C9_OwnDelete ==
    [][ last'.op = "delete" =>
          \A r \in vacation_requests :
             (r.id = last'.vacation_id /\ r.employee_id = last'.employee_id) =>
                IF r.start_date < today
                THEN /\ last'.result = PastDate
                     /\ vacation_requests' = vacation_requests
                ELSE /\ last'.result = Ok
                     /\ vacation_requests' = vacation_requests \ {r}
                     /\ r \notin get_vacations_for_employee(vacation_requests', r.employee_id)
                     /\ used_days(vacation_requests', r.employee_id, r.vacation_type,
                                  YearOf(r.start_date))
                          = used_days(vacation_requests, r.employee_id, r.vacation_type,
                                      YearOf(r.start_date)) - r.business_days ]_vars

\* the owner's delete of a request that started before today was refused
C9_Witness ==
    /\ last.op = "delete"
    /\ last.result = PastDate
    /\ \E r \in vacation_requests :
          /\ r.id = last.vacation_id
          /\ r.employee_id = last.employee_id
          /\ r.start_date < today

\* C10 as stated: a stored request is deleted only if its start date is in
\* the future (after today).
C10_AsStated ==
    [][ \A r \in vacation_requests \ vacation_requests' : r.start_date > today ]_vars

\* C10 (amended): a stored request is deleted only by its owner and only if
\* its start date is today or later; the owner's delete of a request whose
\* start date is before today does not delete it.
C10_DeletedOnlyIfNotPast ==
    [][ \A r \in vacation_requests \ vacation_requests' :
           /\ r.start_date >= today
           /\ last'.op = "delete"
           /\ last'.employee_id = r.employee_id
           /\ last'.vacation_id = r.id ]_vars

\* the owner deleted a request that starts today
C10_Witness ==
    /\ last.op = "delete"
    /\ last.result = Ok
    /\ last.start_date = today
    /\ \A r \in vacation_requests : r.id # last.vacation_id

\* C6: the balance read and the insert of create_vacation are two steps with
\* nothing locked between them: the read step stores no request and keeps the
\* balance it read; the insert step stores the request that passed the check
\* against that kept balance, whatever has been stored since.
C6_ReadThenInsert ==
    [][ \A p \in Procs :
          /\ (calls[p].pc = "idle" /\ calls'[p].pc = "checked") =>
                /\ vacation_requests' = vacation_requests
                /\ calls'[p].balance = BalanceOf(vacation_requests, calls'[p].employee_id,
                                                 YearOf(calls'[p].start_date))
                /\ calls'[p].business_days <= AvailableFor(calls'[p].vacation_type, calls'[p].balance)
          /\ (calls[p].pc = "checked" /\ calls'[p].pc = "done") =>
                /\ calls[p].business_days <= AvailableFor(calls[p].vacation_type, calls[p].balance)
                /\ \E r \in vacation_requests' \ vacation_requests :
                      /\ vacation_requests' = vacation_requests \cup {r}
                      /\ r.id = calls'[p].vacation_id
                      /\ r.employee_id = calls[p].employee_id
                      /\ r.vacation_type = calls[p].vacation_type
                      /\ r.start_date = calls[p].start_date
                      /\ r.business_days = calls[p].business_days ]_vars

\* two calls of one employee read the same balance, both passed the check and
\* both inserted: the vacation days used in that year exceed accrued + carryover
C6_Witness ==
    \E e \in Hired :
        /\ \A p \in Procs :
              /\ calls[p].pc = "done"
              /\ calls[p].result = Ok
              /\ calls[p].employee_id = e
              /\ calls[p].vacation_type = "vacation"
              /\ \E r \in vacation_requests : r.id = calls[p].vacation_id
        /\ calls[1].balance = calls[2].balance
        /\ YearOf(calls[1].start_date) = YearOf(calls[2].start_date)
        /\ LET b == BalanceOf(vacation_requests, e, YearOf(calls[1].start_date))
           IN  b.vacation_used > b.vacation_accrued + b.vacation_carryover

\* C11: for every year Y get_corporate_holidays returns exactly 6 dates, all in
\* year Y: Jan 1, Jul 4, Dec 25, the last Monday of May, the first Monday of
\* September (day 1..7) and the fourth Thursday of November (day 22..28).
C11_HolidayRules ==
    calc.op = "get_corporate_holidays" =>
        LET Y == calc.args[1]
            h == calc.result
        IN  /\ Len(h) = 6
            /\ Cardinality(Range(h)) = 6
            /\ \A d \in Range(h) : YearOf(d) = Y
            /\ { MkDate(Y, 1, 1), MkDate(Y, 7, 4), MkDate(Y, 12, 25) } \subseteq Range(h)
            /\ \E d \in Range(h) :
                  /\ MonthOf(d) = 5 /\ Weekday(d) = 0
                  /\ d + 7 > MkDate(Y, 5, 31)
            /\ \E d \in Range(h) :
                  MonthOf(d) = 9 /\ Weekday(d) = 0 /\ DayOf(d) \in 1..7
            /\ \E d \in Range(h) :
                  MonthOf(d) = 11 /\ Weekday(d) = 3 /\ DayOf(d) \in 22..28

\* the dates the holiday rules name, for a year Y
LastMondayOfMay(Y) ==
    CHOOSE d \in MkDate(Y, 5, 1)..MkDate(Y, 5, 31) : Weekday(d) = 0 /\ d + 7 > MkDate(Y, 5, 31)

FirstMondayOfSeptember(Y) ==
    CHOOSE d \in MkDate(Y, 9, 1)..MkDate(Y, 9, 7) : Weekday(d) = 0

FourthThursdayOfNovember(Y) ==
    CHOOSE d \in MkDate(Y, 11, 22)..MkDate(Y, 11, 28) : Weekday(d) = 3

RuleDateOf(name, Y) ==
    CASE name = "New Year's Day"   -> MkDate(Y, 1, 1)
      [] name = "Memorial Day"     -> LastMondayOfMay(Y)
      [] name = "Independence Day" -> MkDate(Y, 7, 4)
      [] name = "Labor Day"        -> FirstMondayOfSeptember(Y)
      [] name = "Thanksgiving"     -> FourthThursdayOfNovember(Y)
      [] name = "Christmas"        -> MkDate(Y, 12, 25)

\* C12: in the result of get_holidays_for_year, and in the rows of the holiday
\* cache, each of the six holiday names goes with its own date: New Year's Day
\* Jan 1, Memorial Day the last Monday of May, Independence Day Jul 4, Labor
\* Day the first Monday of September, Thanksgiving the fourth Thursday of
\* November, Christmas Dec 25.
C12_NamesMatchDates ==
    /\ calc.op = "get_holidays_for_year" =>
          /\ { calc.result[i].name : i \in 1..Len(calc.result) } = Range(service_holiday_names)
          /\ \A i \in 1..Len(calc.result) :
                calc.result[i].date = RuleDateOf(calc.result[i].name, calc.args[1])
    /\ \A r \in corporate_holidays : r.holiday_date = RuleDateOf(r.name, r.year)

\* Saturdays and Sundays, counted from Saturday 2024-06-29
IsWeekendDay(d) == (d - MkDate(2024, 6, 29)) % 7 \in {0, 1}

\* C13: calculate_business_days returns 0 when start > end, and otherwise the
\* number of days d with start <= d <= end that are neither Saturday nor
\* Sunday nor in the holiday list, however often a date is in that list.
C13_BusinessDayCount ==
    calc.op = "calculate_business_days" =>
        LET start_date == calc.args[1]
            end_date   == calc.args[2]
            holidays   == calc.args[3]
        IN  calc.result =
               IF start_date > end_date THEN 0
               ELSE Cardinality({ d \in start_date..end_date :
                                     ~IsWeekendDay(d) /\ d \notin Range(holidays) })

\* a range over both weekends and the holiday, with a list naming dates twice
C13_Witness ==
    /\ calc.op = "calculate_business_days"
    /\ calc.args[1] = MkDate(2024, 6, 28)
    /\ calc.args[2] = MkDate(2024, 7, 8)
    /\ Len(calc.args[3]) > Cardinality(Range(calc.args[3]))
    /\ MkDate(2024, 7, 4) \in Range(calc.args[3])
    /\ calc.result = 5

\* C14: for start <= end, moving the end date one day on raises the result of
\* calculate_business_days by exactly 1 when the added day is a weekday that
\* is no holiday, and leaves it unchanged when it is a weekend day or a holiday.
C14_ExtendByOneDay ==
    (calc.op = "calculate_business_days" /\ calc.args[1] <= calc.args[2]) =>
        LET start_date == calc.args[1]
            end_date   == calc.args[2]
            holidays   == calc.args[3]
            added      == end_date + 1
        IN  calculate_business_days(start_date, added, holidays) =
               IF ~IsWeekendDay(added) /\ added \notin Range(holidays)
               THEN calc.result + 1
               ELSE calc.result

\* a range that ends the day before the holiday: adding the holiday adds nothing
C14_Witness ==
    /\ calc.op = "calculate_business_days"
    /\ calc.args[1] <= calc.args[2]
    /\ calc.args[2] + 1 = MkDate(2024, 7, 4)
    /\ MkDate(2024, 7, 4) \in Range(calc.args[3])
    /\ calc.result > 0
    /\ calculate_business_days(calc.args[1], calc.args[2] + 1, calc.args[3]) = calc.result

\* (year, month, day) a is a later date than (year, month, day) b
LaterDate(a, b) ==
    \/ a[1] > b[1]
    \/ a[1] = b[1] /\ a[2] > b[2]
    \/ a[1] = b[1] /\ a[2] = b[2] /\ a[3] > b[3]

\* C15: calculate_vacation_accrued returns 0 when the hire date is after the
\* reference date, and otherwise (ref.year - hire.year) * 12 + ref.month -
\* hire.month, less 1 when ref.day < hire.day, and never less than 0; for
\* (2024-01-15, 2024-01-10) it is 0 and for (2024-01-15, 2024-02-15) it is 1.
C15_WholeMonths ==
    calc.op = "calculate_vacation_accrued" =>
        LET hire   == calc.args[1]
            ref    == calc.args[2]
            months == (ref[1] - hire[1]) * 12 + ref[2] - hire[2]
            whole  == IF ref[3] < hire[3] THEN months - 1 ELSE months
        IN  /\ calc.result >= 0
            /\ LaterDate(hire, ref) => calc.result = 0
            /\ ~LaterDate(hire, ref) => calc.result = (IF whole < 0 THEN 0 ELSE whole)
            /\ (hire = << 2024, 1, 15 >> /\ ref = << 2024, 1, 10 >>) => calc.result = 0
            /\ (hire = << 2024, 1, 15 >> /\ ref = << 2024, 2, 15 >>) => calc.result = 1

\* the call for hire 2024-01-15 and reference 2024-02-15 returned 1
C15_Witness ==
    /\ calc.op = "calculate_vacation_accrued"
    /\ calc.args = << << 2024, 1, 15 >>, << 2024, 2, 15 >> >>
    /\ calc.result = 1

\* a balance read that answered with a balance
BalanceRead == calc.op = "get_vacation_balance" /\ calc.result.status = Ok

\* the accrual window of the read: from the hire date when hired in the
\* target year, else from January 1st; until today or December 31st
WindowStart ==
    IF YearOf(hire_date[calc.args[1]]) = calc.args[2]
    THEN hire_date[calc.args[1]]
    ELSE MkDate(calc.args[2], 1, 1)

WindowEnd == IF today < MkDate(calc.args[2], 12, 31) THEN today ELSE MkDate(calc.args[2], 12, 31)

\* C16 as stated: vacation_accrued of the balance is
\* min(12, max(0, calculate_vacation_accrued(accrual_start, accrual_end))).
C16_AsStated ==
    BalanceRead =>
        calc.result.balance.vacation_accrued =
            Min(12, Max(0, calculate_vacation_accrued(WindowStart, WindowEnd)))

\* C16 (amended): vacation_accrued of the balance is 0 when accrual_start is
\* after accrual_end, and otherwise one more than calculate_vacation_accrued
\* over the window (the month begun counts), capped at 12.
C16_AccruedCountsBegunMonth ==
    BalanceRead =>
        calc.result.balance.vacation_accrued =
            IF WindowStart <= WindowEnd
            THEN Min(12, calculate_vacation_accrued(WindowStart, WindowEnd) + 1)
            ELSE 0

\* hired 2023-03-10, read on 2024-06-17 for 2024: 6 accrued, 5 whole months
C16_Witness ==
    /\ BalanceRead
    /\ hire_date[calc.args[1]] = MkDate(2023, 3, 10)
    /\ today = MkDate(2024, 6, 17)
    /\ calc.args[2] = 2024
    /\ calc.result.balance.vacation_accrued = 6
    /\ calculate_vacation_accrued(WindowStart, WindowEnd) = 5

\* the documented example of a read: hired 2023-03-10, today 2024-06-15, no
\* stored requests, target year 2024
ExampleRead ==
    /\ BalanceRead
    /\ hire_date[calc.args[1]] = MkDate(2023, 3, 10)
    /\ today = MkDate(2024, 6, 15)
    /\ vacation_requests = {}
    /\ calc.args[2] = 2024

\* C17 as stated: that read gives vacation_accrued = 4, vacation_carryover = 5
\* (from a 2023 accrual of 10 and 0 used), vacation_used = 0,
\* vacation_available = 9, optional_holidays_available = 3.
C17_AsStated ==
    ExampleRead =>
        /\ calc.result.balance.vacation_accrued = 4
        /\ calc.result.balance.vacation_carryover = 5
        /\ accrued_until_previous_year_end(MkDate(2023, 3, 10), 2024) = 10
        /\ calc.result.balance.vacation_used = 0
        /\ calc.result.balance.vacation_available = 9
        /\ calc.result.balance.optional_holidays_available = 3

\* C17 (amended): that read gives vacation_accrued = 6, vacation_carryover = 5
\* (from a 2023 accrual of 9 and 0 used), vacation_used = 0,
\* vacation_available = 11, optional_holidays_available = 3.
C17_Example ==
    ExampleRead =>
        /\ calc.result.balance.vacation_accrued = 6
        /\ calc.result.balance.vacation_carryover = 5
        /\ accrued_until_previous_year_end(MkDate(2023, 3, 10), 2024) = 9
        /\ calc.result.balance.vacation_used = 0
        /\ calc.result.balance.vacation_available = 11
        /\ calc.result.balance.optional_holidays_used = 0
        /\ calc.result.balance.optional_holidays_available = 3

C17_Witness == ExampleRead /\ calc.result.balance.vacation_available = 11

\* C18: in every balance read, 0 <= vacation_accrued <= 12,
\* 0 <= vacation_carryover <= 5 and vacation_available =
\* vacation_accrued + vacation_carryover - vacation_used.
C18_BalanceBounds ==
    BalanceRead =>
        LET b == calc.result.balance
        IN  /\ 0 <= b.vacation_accrued /\ b.vacation_accrued <= 12
            /\ 0 <= b.vacation_carryover /\ b.vacation_carryover <= 5
            /\ b.vacation_available = b.vacation_accrued + b.vacation_carryover - b.vacation_used

\* a full year accrued, and more used in the previous year than was accrued
C18_Witness ==
    /\ BalanceRead
    /\ calc.result.balance.vacation_accrued = 12
    /\ calc.result.balance.vacation_carryover = 0
    /\ used_days(vacation_requests, calc.args[1], "vacation", calc.args[2] - 1)
          > accrued_until_previous_year_end(hire_date[calc.args[1]], calc.args[2])
    /\ calc.args[2] > YearOf(hire_date[calc.args[1]])

\* C19: vacation_carryover is 0 whenever the target year is the hire year or
\* an earlier one, whatever is stored; it is not 0 only for later years.
C19_NoCarryoverUntilAfterHireYear ==
    BalanceRead =>
        /\ calc.args[2] <= YearOf(hire_date[calc.args[1]]) =>
              calc.result.balance.vacation_carryover = 0
        /\ calc.result.balance.vacation_carryover # 0 =>
              calc.args[2] > YearOf(hire_date[calc.args[1]])

\* a read for the hire year itself, with requests stored, and no carryover
C19_Witness ==
    /\ BalanceRead
    /\ calc.args[2] = YearOf(hire_date[calc.args[1]])
    /\ vacation_requests # {}
    /\ calc.result.balance.vacation_accrued > 0
    /\ calc.result.balance.vacation_carryover = 0

\* what the Business-Day Counter gives for the range of a stored request,
\* with the holidays of every year from its start year to its end year
CounterOf(r) ==
    calculate_business_days(r.start_date, r.end_date,
        holidays_for_years(YearOf(r.start_date), YearOf(r.end_date)))

\* C20: every stored request has business_days equal to the Business-Day
\* Counter over its own range with the holidays of every year it spans, and
\* at least 1; and no step (create of another request, delete, hire-date
\* update, balance read, holiday sync, the clock) changes the business_days
\* of a request that stays stored.
C20_BusinessDaysFixedAtCreation ==
    /\ [](\A r \in vacation_requests :
              r.business_days = CounterOf(r) /\ r.business_days >= 1)
    /\ [][\A r \in vacation_requests : \A r2 \in vacation_requests' :
              r2.id = r.id => r2.business_days = r.business_days]_vars

\* the 8 days around Independence Day are stored for an employee whose hire
\* date was changed afterwards (hired 2024-03-10, 4 days would have accrued),
\* after another request was made, a balance was read and holidays were synced
C20_Witness ==
    /\ \E r \in vacation_requests :
          /\ r.start_date = MkDate(2024, 6, 26) /\ r.end_date = MkDate(2024, 7, 8)
          /\ r.business_days = 8
          /\ hire_date[r.employee_id] = MkDate(2024, 3, 10)
          /\ r.id = 1
    /\ next_id > 2
    /\ calc.op = "get_vacation_balance"
    /\ \E h \in corporate_holidays : h.year = 2025

\* the rows of the cache for a year
CacheRows(rows, year) == { r \in rows : r.year = year }

\* the cache holds a year when it has rows for it
CacheHolds(rows, year) == CacheRows(rows, year) # {}

\* a step that is a balance read: every other step resets the call record
IsBalanceRead == last'.op = "balance"

\* C21: after any balance read the cache holds the current year and the next
\* one; at all times the rows of a year the cache holds are exactly the (at
\* most 6) dates the Holiday Calculator returns for that year, no date twice;
\* a balance read changes no row the cache has, and adds none once both years
\* are held.
C21_CacheSyncIdempotent ==
    /\ [](\A year \in CacheYears :
              CacheHolds(corporate_holidays, year) =>
                  /\ { r.holiday_date : r \in CacheRows(corporate_holidays, year) }
                        = Range(get_corporate_holidays(year))
                  /\ Cardinality(CacheRows(corporate_holidays, year)) <= 6)
    /\ [](\A r1, r2 \in corporate_holidays :
              r1.holiday_date = r2.holiday_date => r1 = r2)
    /\ [](\A r \in corporate_holidays : r.year \in CacheYears)
    /\ [][IsBalanceRead =>
              /\ CacheHolds(corporate_holidays', YearOf(today))
              /\ CacheHolds(corporate_holidays', YearOf(today) + 1)
              /\ corporate_holidays \subseteq corporate_holidays'
              /\ (CacheHolds(corporate_holidays, YearOf(today))
                    /\ CacheHolds(corporate_holidays, YearOf(today) + 1))
                  => corporate_holidays' = corporate_holidays]_vars

\* reads before and after the new year and a sync of 2023: four years cached
C21_Witness ==
    /\ calc.op = "get_vacation_balance"
    /\ today = MkDate(2025, 1, 1)
    /\ \A year \in CacheYears : Cardinality(CacheRows(corporate_holidays, year)) = 6

\* the stored approved requests of an employee and a type that start in a year
ChargedTo(employee_id, vacation_type, year) ==
    { r \in vacation_requests :
        /\ r.employee_id = employee_id
        /\ r.vacation_type = vacation_type
        /\ r.status = "approved"
        /\ MkDate(year, 1, 1) <= r.start_date
        /\ r.start_date <= MkDate(year, 12, 31) }

\* the sum of their business_days: one element for each day of each request
DaysChargedTo(employee_id, vacation_type, year) ==
    Cardinality(UNION { { << r.id, k >> : k \in 1..r.business_days } :
                            r \in ChargedTo(employee_id, vacation_type, year) })

\* the Business-Day Counter over each range of SpanRanges, with the holidays
\* of the years it spans
SpanBusinessDays ==
    [ r \in SpanRanges |->
        calculate_business_days(r[1], r[2], holidays_for_years(YearOf(r[1]), YearOf(r[2]))) ]

\* the balance just read (the call record is that of the read itself)
FreshRead == last.op = "balance" /\ BalanceRead

\* C22: a balance read for year Y reports as vacation_used and
\* optional_holidays_used the sums of business_days over the employee's
\* approved requests of that type starting in Y, a request spanning Dec 31
\* counting whole in its start year; and a create that reaches the balance
\* check succeeds exactly when its business days fit the balance of the
\* start year.
C22_UsedByStartYear ==
    /\ [](FreshRead =>
            /\ calc.result.balance.vacation_used
                  = DaysChargedTo(calc.args[1], "vacation", calc.args[2])
            /\ calc.result.balance.optional_holidays_used
                  = DaysChargedTo(calc.args[1], "optional_holiday", calc.args[2]))
    /\ [][(last'.op = "create" /\ last'.result \in { Ok, InsufficientBalance }) =>
            (last'.result = InsufficientBalance <=>
                balance_check_fails(last'.vacation_type,
                    SpanBusinessDays[<< last'.start_date, last'.end_date >>],
                    get_vacation_balance(vacation_requests, hire_date[last'.employee_id],
                        last'.employee_id, YearOf(last'.start_date), today)))]_vars

\* 2024-12-30 .. 2025-01-03 is stored with 4 days: the read for 2025 reports
\* none of them
C22_Witness ==
    /\ FreshRead
    /\ calc.args[2] = 2025
    /\ \E r \in vacation_requests :
          /\ r.employee_id = calc.args[1]
          /\ r.vacation_type = "vacation"
          /\ r.start_date = MkDate(2024, 12, 30) /\ r.end_date = MkDate(2025, 1, 3)
          /\ r.business_days = 4
    /\ calc.result.balance.vacation_used = 0

\* the same range is refused for the 3 days left in 2024 although the balance
\* of 2025, where it ends, has 4
C22_RefusedOnStartYear ==
    /\ last.op = "create" /\ last.result = InsufficientBalance
    /\ last.start_date = MkDate(2024, 12, 30) /\ last.end_date = MkDate(2025, 1, 3)
    /\ last.vacation_type = "vacation"
    /\ get_vacation_balance(vacation_requests, hire_date[last.employee_id],
           last.employee_id, 2024, today).vacation_available = 3
    /\ get_vacation_balance(vacation_requests, hire_date[last.employee_id],
           last.employee_id, 2025, today).vacation_available = 4

\* C23: for a hire year before the target year Y, once Y-1 is over, the
\* carryover of Y is min(5, max(0, accrued(Y-1) - used_vacation(Y-1))) with
\* accrued(Y-1) the vacation_accrued the engine itself reports for Y-1.
C23_CarryoverFromReportedAccrual ==
    (/\ BalanceRead
     /\ YearOf(hire_date[calc.args[1]]) < calc.args[2]
     /\ today >= MkDate(calc.args[2] - 1, 12, 31))
    => calc.result.balance.vacation_carryover =
          Min(5, Max(0,
              get_vacation_balance(vacation_requests, hire_date[calc.args[1]],
                  calc.args[1], calc.args[2] - 1, today).vacation_accrued
              - DaysChargedTo(calc.args[1], "vacation", calc.args[2] - 1)))

\* the step is a create that stored a request
CreateStored == last'.op = "create" /\ last'.result = Ok

\* the step deletes, for the same employee, the request the step before stored
DeleteOfCreated ==
    /\ last.op = "create" /\ last.result = Ok
    /\ last'.op = "delete" /\ last'.result = Ok
    /\ last'.vacation_id = last.vacation_id
    /\ last'.employee_id = last.employee_id

\* the stored requests before the create that stored the request of `last`
BeforeCreate == { r \in vacation_requests : r.id # last.vacation_id }

\* C24: a create that succeeds adds one request with a fresh id and changes
\* nothing else the balance is computed from; the delete of that request right
\* after it (same employee, same today) leaves the stored requests, and so
\* the balance of every year, as they were before the create.
C24_CreateThenDeleteRestores ==
    /\ [][CreateStored =>
            /\ \A r \in vacation_requests : r.id # last'.vacation_id
            /\ \E row \in vacation_requests' :
                  /\ row.id = last'.vacation_id
                  /\ vacation_requests' = vacation_requests \cup {row}
            /\ today' = today /\ hire_date' = hire_date]_vars
    /\ [][DeleteOfCreated =>
            /\ vacation_requests' = BeforeCreate
            /\ today' = today /\ hire_date' = hire_date
            /\ \A year \in BalanceYears :
                  get_vacation_balance(vacation_requests', hire_date'[last.employee_id],
                      last.employee_id, year, today')
                  = get_vacation_balance(BeforeCreate, hire_date[last.employee_id],
                      last.employee_id, year, today)]_vars

\* request 2 was stored and deleted again while request 1 stays stored
C24_Witness ==
    /\ last.op = "delete" /\ last.result = Ok /\ last.vacation_id = 2
    /\ next_id = 3
    /\ \E r \in vacation_requests : r.id = 1 /\ r.employee_id = last.employee_id

\* the last call was made by an employee whose hire date is not set
UnhiredCall(op) == last.op = op /\ hire_date[last.employee_id] = NoDate

\* C25 as stated: for an employee without a hire date, get_balance and
\* create_vacation both end in the failure raised while reading the hire date,
\* never in a validation error, and nothing is stored.
C25_AsStated ==
    /\ UnhiredCall("balance") => last.result = ServerError
    /\ UnhiredCall("create") => last.result = ServerError /\ last.vacation_id = NoId

\* C25 (amended): for an employee without a hire date, get_balance gives no
\* snapshot and ends in the failure raised while reading the hire date;
\* create_vacation stores nothing and ends in InvalidRange, PastDate or
\* NoBusinessDays when the range fails one of these checks, and otherwise in
\* that same failure, never in InsufficientBalance or success; no stored
\* request belongs to an employee without a hire date.
C25_UnhiredFailsAtBalance ==
    /\ UnhiredCall("balance") =>
          /\ last.result = ServerError
          /\ calc.op = "get_vacation_balance" /\ calc.result.status = ServerError
          /\ calc.result.balance = NoBalance
    /\ UnhiredCall("create") =>
          /\ last.vacation_id = NoId
          /\ last.result \in { InvalidRange, PastDate, NoBusinessDays, ServerError }
          /\ last.result = ServerError <=>
                /\ last.start_date <= last.end_date
                /\ last.start_date >= today
                /\ \E d \in last.start_date..last.end_date :
                      Weekday(d) < 5
                      /\ d \notin Range(holidays_for_years(YearOf(last.start_date),
                                                           YearOf(last.end_date)))
    /\ \A r \in vacation_requests : hire_date[r.employee_id] # NoDate

\* employee 2, without a hire date, asked for three working days and got the
\* failure, while employee 1 has a request stored
C25_Witness ==
    /\ UnhiredCall("create")
    /\ last.result = ServerError
    /\ last.start_date = MkDate(2024, 6, 17) /\ last.end_date = MkDate(2024, 6, 19)
    /\ vacation_requests # {}

\* the read of an employee without a hire date
C25_ReadWitness == UnhiredCall("balance") /\ last.result = ServerError

\* C26: every stored request has type 'vacation' or 'optional_holiday' and
\* fitted the balance of its type when it was stored; a create with any other
\* type does not get to store a request.
C26_OnlyCheckedTypesStored ==
    /\ \A r \in vacation_requests : r.vacation_type \in VacationTypes
    /\ (last.op = "create" /\ last.vacation_type \notin VacationTypes) =>
          last.result # Ok /\ last.vacation_id = NoId

\* two requests of type 'sick', 8 business days each, are stored for an
\* employee whose balance has 11 days, and the balance still has them all
C26_SickStoredUnchecked ==
    /\ last.op = "create" /\ last.result = Ok /\ last.vacation_type = "sick"
    /\ Cardinality({ r \in vacation_requests :
          r.employee_id = last.employee_id /\ r.vacation_type = "sick"
          /\ r.business_days = 8 }) = 2
    /\ BalanceOf(vacation_requests, last.employee_id, 2024).vacation_available = 11

\* C27: the balance reports vacation_accrued = 0 for every target year before
\* the hire year and for every today before the hire date, and an employee
\* whose hire date is still to come is refused every request of type
\* 'vacation' (here, after a read: Tuesday 2024-12-31 alone).
C27_NothingAccruedBeforeHire ==
    /\ (BalanceRead /\ (calc.args[2] < YearOf(hire_date[calc.args[1]])
                          \/ today < hire_date[calc.args[1]]))
          => calc.result.balance.vacation_accrued = 0
    /\ (BalanceRead /\ today < hire_date[calc.args[1]])
          => create_user_vacation_result(vacation_requests, hire_date[calc.args[1]], today,
                 calc.args[1], "vacation", MkDate(2024, 12, 31), MkDate(2024, 12, 31)) # Ok

\* vacation_accrued of the read made now
AccruedNow == calc.result.balance.vacation_accrued

\* what the same read reports on the day after
AccruedTomorrow ==
    get_vacation_balance(vacation_requests, hire_date[calc.args[1]],
        calc.args[1], calc.args[2], today + 1).vacation_accrued

\* C28: with hire date, target year and stored requests fixed, the
\* vacation_accrued of a read is never more than that of the same read a day
\* later, nor than that of any later read, and from December 31st of the
\* target year on it is the same day after day.
C28_AccruedNeverDecreases ==
    /\ [](FreshRead =>
            /\ AccruedNow <= AccruedTomorrow
            /\ today >= MkDate(calc.args[2], 12, 31) => AccruedNow = AccruedTomorrow)
    /\ [][(/\ last'.op = "balance"
           /\ calc.op = "get_vacation_balance" /\ calc.result.status = Ok
           /\ calc'.result.status = Ok
           /\ calc'.args = calc.args)
          => calc'.result.balance.vacation_accrued >= calc.result.balance.vacation_accrued]_vars

\* hired on January 31st: on March 1st, with the day of month back at 1, the
\* read for 2024 reports 2 days, one more than on February 29th
C28_Witness ==
    /\ FreshRead
    /\ hire_date[1] = MkDate(2024, 1, 31)
    /\ today = MkDate(2024, 3, 1)
    /\ calc.args[2] = 2024
    /\ AccruedNow = 2

\* past the end of the year read, the 12 days stay
C28_PastYearEnd ==
    /\ FreshRead
    /\ today = MkDate(2025, 1, 2)
    /\ calc.args[2] = 2024
    /\ AccruedNow = 12 /\ AccruedTomorrow = 12

\* the step is a chat turn: the history is not empty afterwards and changed
IsChatTurn == conversation_history' # NoSession /\ conversation_history' # conversation_history

\* the content of the user message of the turn: that of the last message
TurnContent == conversation_history'[Len(conversation_history')].content

\* what the turn added to the history it started from
AddedInTurn ==
    SubSeq(conversation_history', Len(history_of_session(conversation_history)) + 1,
           Len(conversation_history'))

\* the user message, then the assistant's tool-call message and the tool
\* results if any, then the final assistant message
IsOneTurn(added) ==
    /\ Len(added) >= 2
    /\ added[1] = Message("user", TurnContent)
    /\ added[Len(added)] = Message("assistant", TurnContent)
    /\ Len(added) > 2 =>
          /\ added[2] = Message("assistant", << TurnContent, "tool_calls" >>)
          /\ \A i \in 3..(Len(added) - 1) : added[i] = Message("tool", << TurnContent, i - 2 >>)

\* C29: after each chat turn the history is the history before the turn
\* followed by the user message and the messages produced in the turn, each
\* once; at all times no message is in the history twice and the system
\* prompt is its first element only.
C29_HistoryGrowsByTheTurn ==
    /\ [](\A i, j \in 1..Len(conversation_history) :
              conversation_history[i] = conversation_history[j] => i = j)
    /\ [](\A i \in 1..Len(conversation_history) :
              conversation_history[i] = SystemPrompt <=> i = 1)
    /\ [][IsChatTurn =>
              /\ SubSeq(conversation_history', 1, Len(history_of_session(conversation_history)))
                    = history_of_session(conversation_history)
              /\ IsOneTurn(AddedInTurn)]_vars

\* after the first turn, without tools, the history is the system prompt, the
\* user message, and then the three messages chat returned: prompt and user
\* message again, and the answer
C29_FirstTurnDoubled ==
    conversation_history =
        << SystemPrompt, Message("user", "m1"),
           SystemPrompt, Message("user", "m1"), Message("assistant", "m1") >>

\* the call of trim_conversation_history recorded in calc
TrimCall == calc.op = "trim_conversation_history"

\* C30: for N >= 1, trim_conversation_history(history, N) is history itself
\* when len(history) <= N + 1, and otherwise the first message followed by the
\* last N messages in their order; so the result of a history that is not
\* empty starts with the first message of the history, and the result of a
\* history longer than N + 1 has N + 1 elements.
C30_TrimKeepsFirstAndLast ==
    (TrimCall /\ calc.args[2] >= 1) =>
        LET history == calc.args[1]
            N       == calc.args[2]
            result  == calc.result
        IN  /\ Len(history) <= N + 1 => result = history
            /\ Len(history) > N + 1 =>
                  /\ Len(result) = N + 1
                  /\ result[1] = history[1]
                  /\ \A i \in 1..N : result[1 + i] = history[Len(history) - N + i]
            /\ Len(result) <= N + 1
            /\ history # << >> => result[1] = history[1]

\* five messages trimmed to the system prompt and the last two, the second
\* message, a user message, dropped
C30_Witness ==
    /\ TrimCall
    /\ calc.args[2] = 2
    /\ Len(calc.args[1]) = 5
    /\ calc.args[1][1] = SystemPrompt
    /\ calc.args[1][2] = Message("user", "m1")
    /\ calc.args[1][4] = Message("tool", << "m1", 1 >>)
    /\ calc.args[1][5] = Message("assistant", "m1")
    /\ calc.result = << SystemPrompt, Message("tool", << "m1", 1 >>), Message("assistant", "m1") >>

====
